---- MODULE Spec2Model ----
(***************************************************************************)
(* State-machine model of the JewelleryViewer component                     *)
(* (src/app/components/JewelleryViewer.tsx): the scene graph's model slot,  *)
(* the HDRI environment loader, the external model loaders, the camera      *)
(* preset effect and the screenshot capture.                                *)
(*                                                                          *)
(* Lengths are integers in thousandths of a world unit (1 unit = 1000), so  *)
(* the factors 1.5, 0.8, 0.5, 0.7 and 0.3 of the camera effect and the      *)
(* scale factor 2 / maxDim are exact on the inputs enumerated below.        *)
(* A vector is a tuple <<x, y, z>>.  A scale factor is a fraction           *)
(* <<numerator, denominator>>.                                               *)
(***************************************************************************)
EXTENDS Integers, Sequences, FiniteSets

VARIABLES
    objects,          \* heap of model hierarchies ever constructed: identity -> object
    attached,         \* scene.children restricted to model hierarchies (object identities)
    currentModel,     \* currentModelRef.current (NULL or an object identity)
    defaultRing,      \* defaultRingRef.current  (NULL or an object identity)
    sceneEnvironment, \* scene.environment (NULL or a texture identity)
    envMap,           \* envMapRef.current     (NULL or a texture identity)
    hdriRequests,     \* presets of the RGBELoader loads started so far; a load's identity is its index
    hdriPending,      \* RGBELoader loads in flight (load identities)
    lightingPreset,   \* React state lightingPreset
    modelPending,     \* GLTFLoader loads in flight: records [id, via]; ids count the loads started
    modelIssued,      \* number of external loads started so far
    loading,          \* React state loading
    cameraPreset,     \* React state cameraPreset
    cameraPosition,   \* camera.position
    controlsTarget,   \* controls.target
    minDistance,      \* controls.minDistance
    rendererSize,     \* renderer.getSize(): <<width, height>>
    capturePending,   \* toBlob callbacks not yet run: records [id, originalSize]
    captureIssued,    \* number of captures started so far
    isCapturing,      \* React state isCapturing
    downloads,        \* number of screenshot files handed to the browser
    lastHandler,      \* history: which kind of handler ran last ("selectPreset", "modelLoaded", ..., "other")
    materials,        \* the material of every mesh of every object: identity -> sequence of materials
    modelInfo,        \* React state modelInfo: NoInfo or <<vertices, faces, materials>>
    currentMaterial,  \* React state currentMaterial
    customColor,      \* React state customColor (a string, as a sequence of characters)
    timers,           \* number of short-link timeouts (setTimeout 500 ms) not yet fired
    clock,            \* the currentTime of the latest render-loop iteration, in ms (0 before the first)
    loopStart,        \* the currentTime of the first iteration (NotStarted before it)
    frameCount,       \* frameCountRef.current
    lastFrameTime,    \* lastFrameTimeRef.current
    fps,              \* React state fps
    publishedAt       \* history: the currentTime of the latest setFps call (NotStarted before it)

sceneVars   == <<objects, attached, currentModel, defaultRing>>
envVars     == <<sceneEnvironment, envMap, hdriRequests, hdriPending, lightingPreset>>
loadVars    == <<modelPending, modelIssued, loading>>
cameraVars  == <<cameraPreset, cameraPosition, controlsTarget, minDistance>>
captureVars == <<rendererSize, capturePending, captureIssued, isCapturing, downloads>>
matVars     == <<materials, modelInfo>>
uiVars      == <<currentMaterial, customColor, timers>>
renderVars  == <<clock, loopStart, frameCount, lastFrameTime, fps, publishedAt>>
vars == <<sceneVars, envVars, loadVars, cameraVars, captureVars, lastHandler, matVars, uiVars,
         renderVars>>

----------------------------------------------------------------------------
(* Bounds of the exploration *)

\* lighting-preset switches explored after mount
MaxLightingSwitches == 1
\* external loads (URL or file) explored
MaxModelLoads == 2
\* screenshot captures explored
MaxCaptures == 4
MaxTimers == 1
MaxTime == 3000

----------------------------------------------------------------------------
(* Program constants and types *)

NULL == 0

CameraPresets == {"front", "side", "top", "detail", "iso"}
LightingPresets == {"studio", "dramatic", "soft", "natural"}

\* the two loadEnvironment calls made while mounting (the mount effect and
\* the first run of the lighting effect)
MountHdriLoads == 2

\* the fixed target size of the normalisation, 2 units
TargetSize == 2000

\* controls.minDistance = 2
InitialMinDistance == 2000

\* const scale = 2 in captureScreenshot
CaptureScale == 2

Origin == <<0, 0, 0>>

\* camera.position.set(0, 2, 5)
InitialCameraPosition == <<0, 2000, 5000>>

\* window.innerWidth x window.innerHeight at mount
WindowSize == <<800, 600>>

----------------------------------------------------------------------------
(* Vectors and bounding boxes *)

VAdd(a, b) == <<a[1] + b[1], a[2] + b[2], a[3] + b[3]>>
VSub(a, b) == <<a[1] - b[1], a[2] - b[2], a[3] - b[3]>>

\* x * num / den, rounding toward minus infinity (exact on the inputs used)
Mul(x, num, den) == (x * num) \div den

VScale(v, s) == <<Mul(v[1], s[1], s[2]), Mul(v[2], s[1], s[2]), Mul(v[3], s[1], s[2])>>

Max2(a, b) == IF a >= b THEN a ELSE b
Max3(v) == Max2(v[1], Max2(v[2], v[3]))

\* Box3.setFromObject(o).getCenter(): the geometry's box under the root's
\* scale and position (matrix = translate(position) * scale(scale))
BoxCenter(o) == VAdd(VScale(o.geoCenter, o.scale), o.position)
\* Box3.setFromObject(o).getSize()
BoxSize(o) == VScale(o.geoSize, o.scale)
MaxDim(o) == Max3(BoxSize(o))

----------------------------------------------------------------------------
(* Objects *)

\* Materials.  Colours are 24-bit integers; metalness, roughness and
\* envMapIntensity are in hundredths; a name is a sequence of characters;
\* type is "standard" (MeshStandardMaterial), "physical"
\* (MeshPhysicalMaterial) or "basic" (any other material class).
Material(type, name, color, metalness, roughness) ==
    [type |-> type, name |-> name, color |-> color, metalness |-> metalness,
     roughness |-> roughness, envMapIntensity |-> 100, envMap |-> NULL]

\* CONFIG.materials
ConfigMaterials ==
    [gold     |-> [color |-> 16766720, metalness |-> 90, roughness |-> 30, envMapIntensity |-> 80],
     rosegold |-> [color |-> 12021369, metalness |-> 90, roughness |-> 30, envMapIntensity |-> 80],
     platinum |-> [color |-> 16777215, metalness |-> 90, roughness |-> 30, envMapIntensity |-> 70]]

Metals == {"gold", "rosegold", "platinum"}

\* material instanceof MeshStandardMaterial || material instanceof MeshPhysicalMaterial
EnvCapable(mat) == mat.type \in {"standard", "physical"}

\* Geometry of the ring's two meshes: TorusGeometry(1, 0.15, 64, 128) has
\* 65 * 129 positions and 64 * 128 * 6 indices; OctahedronGeometry(0.25, 2)
\* is not indexed and has 8 * 9 triangles.
RingMeshes ==
    << [positions |-> 8385, indices |-> 49152],
       [positions |-> 216,  indices |-> 0] >>

\* The procedural ring: TorusGeometry(1, 0.15) in the XY plane with an
\* octahedral gem of radius 0.25 at y = 1.1.  Its box is
\* x in [-1.15, 1.15], y in [-1.15, 1.35], z in [-0.25, 0.25].
RingObject ==
    [kind |-> "ring", geoCenter |-> <<0, 100, 0>>, geoSize |-> <<2300, 2500, 500>>,
     position |-> Origin, scale |-> <<1, 1>>, meshes |-> RingMeshes]

\* the band's and the gem's material as createDefaultRing builds them when
\* envMapRef.current is env
RingMaterials(env) ==
    << [Material("standard", <<>>, ConfigMaterials.gold.color, ConfigMaterials.gold.metalness,
                 ConfigMaterials.gold.roughness)
          EXCEPT !.envMapIntensity = ConfigMaterials.gold.envMapIntensity, !.envMap = env],
       [Material("physical", <<>>, 16777215, 0, 5)
          EXCEPT !.envMapIntensity = IF env # NULL THEN 80 ELSE 100, !.envMap = env] >>

\* The assets a load may deliver: the bounding box (centre, size) and the
\* meshes (position count, index count, material) of the hierarchy
Assets ==
    { [center |-> <<0, 0, 0>>, size |-> <<2000, 1000, 1000>>,
       meshes |-> << [positions |-> 240, indices |-> 720,
                      material |-> Material("standard", <<"G","o","l","d","B","a","n","d">>, 13412864, 100, 20)],
                     [positions |-> 36, indices |-> 0,
                      material |-> Material("physical", <<"G","e","m">>, 16777215, 0, 5)] >>],
      [center |-> <<2000, 0, -4000>>, size |-> <<4000, 2000, 2000>>,
       meshes |-> << [positions |-> 24, indices |-> 36,
                      material |-> Material("standard", <<"B","o","d","y">>, 8421504, 20, 60)],
                     [positions |-> 12, indices |-> 0,
                      material |-> Material("standard", <<"M","E","T","A","L","t","r","i","m">>, 3355443, 30, 40)],
                     [positions |-> 6, indices |-> 0,
                      material |-> Material("basic", <<"L","a","b","e","l">>, 255, 0, 100)] >>] }

\* gltf.scene as GLTFLoader delivers it: a Group at the origin with unit scale
GltfScene(a) ==
    [kind |-> "glb", geoCenter |-> a.center, geoSize |-> a.size,
     position |-> Origin, scale |-> <<1, 1>>,
     meshes |-> [i \in DOMAIN a.meshes |-> [positions |-> a.meshes[i].positions,
                                            indices |-> a.meshes[i].indices]]]

\* the materials of gltf.scene's meshes as GLTFLoader delivers them
GltfMaterials(a) == [i \in DOMAIN a.meshes |-> a.meshes[i].material]

\* setModelInfo(null)
NoInfo == <<>>

\* no render-loop iteration has run yet
NotStarted == 0 - 1

\* the publishing interval of the FPS counter, in ms
PublishInterval == 1000

\* The traversal that counts vertices, faces and materials: every mesh adds
\* its position count, index.count / 3 faces when indexed and
\* position.count / 3 otherwise, and one material
RECURSIVE CountMeshes(_, _)
CountMeshes(meshes, acc) ==
    IF meshes = <<>> THEN acc
    ELSE LET g == Head(meshes)
         IN CountMeshes(Tail(meshes),
                        <<acc[1] + g.positions,
                          acc[2] + (IF g.indices # 0 THEN g.indices \div 3 ELSE g.positions \div 3),
                          acc[3] + 1>>)

ModelStats(o) == CountMeshes(o.meshes, <<0, 0, 0>>)

\* Identities.  Every construction yields a new object: the k-th ring built
\* is -k, and the hierarchy delivered by load l is l.id (loads are numbered
\* from 1 in the order they are started).
RingId(heap) == 0 - (Cardinality({i \in DOMAIN heap : heap[i].kind = "ring"}) + 1)
ExternalId(l) == l.id

\* the heap with the new object m under identity i
Allocate(heap, i, m) == [j \in DOMAIN heap \cup {i} |-> IF j = i THEN m ELSE heap[j]]

Rings == {i \in DOMAIN objects : objects[i].kind = "ring"}
Externals == {i \in DOMAIN objects : objects[i].kind = "glb"}

----------------------------------------------------------------------------
(* Mount *)

Init ==
    /\ objects = [i \in {} |-> RingObject]
    /\ attached = {}
    /\ currentModel = NULL
    /\ defaultRing = NULL
    /\ sceneEnvironment = NULL
    /\ envMap = NULL
    /\ hdriRequests = [i \in 1..MountHdriLoads |-> "studio"]
    /\ hdriPending = 1..MountHdriLoads
    /\ lightingPreset = "studio"
    /\ modelPending = {}
    /\ modelIssued = 0
    /\ loading = TRUE
    /\ cameraPreset = "front"
    /\ cameraPosition = InitialCameraPosition
    /\ controlsTarget = Origin
    /\ minDistance = InitialMinDistance
    /\ rendererSize = WindowSize
    /\ capturePending = {}
    /\ captureIssued = 0
    /\ isCapturing = FALSE
    /\ downloads = 0
    /\ lastHandler = "other"
    /\ materials = [i \in {} |-> <<>>]
    /\ modelInfo = NoInfo
    /\ currentMaterial = "gold"
    /\ customColor = <<"#", "F", "F", "D", "7", "0", "0">>
    /\ timers = 0
    /\ clock = 0
    /\ loopStart = NotStarted
    /\ frameCount = 0
    /\ lastFrameTime = 0
    /\ fps = 60
    /\ publishedAt = NotStarted

----------------------------------------------------------------------------
(* Model Manager: the default ring *)

\* createDefaultRing(scene): construct, scene.add(ring), set both refs,
\* setModelInfo.  mats are the materials of the objects that exist, env is
\* envMapRef.current.
CreateDefaultRing(mats, env) ==
    /\ objects' = Allocate(objects, RingId(objects), RingObject)
    /\ attached' = attached \cup {RingId(objects)}
    /\ currentModel' = RingId(objects)
    /\ defaultRing' = RingId(objects)
    /\ materials' = Allocate(mats, RingId(objects), RingMaterials(env))
    /\ modelInfo' = ModelStats(RingObject)

\* variant: the ring is built on every completion
EnsureDefaultRingAlways(mats, env) ==
    CreateDefaultRing(mats, env) /\ loading' = FALSE

\* if (!currentModelRef.current) { createDefaultRing(scene); setLoading(false); }
EnsureDefaultRing(mats, env) ==
    IF currentModel = NULL
    THEN CreateDefaultRing(mats, env) /\ loading' = FALSE
    ELSE /\ materials' = mats
         /\ UNCHANGED <<sceneVars, loading, modelInfo>>

----------------------------------------------------------------------------
(* Environment Loader *)

\* the texture a load delivers is a fresh object: its identity is the load's
Texture(r) == r

\* scene.traverse of loadEnvironment's onLoad: every mesh in the scene whose
\* material is a standard or physical one gets material.envMap = texture
PropagateEnvMap(mats, inScene, texture) ==
    [i \in DOMAIN mats |->
        IF i \in inScene
        THEN [k \in DOMAIN mats[i] |->
                IF EnvCapable(mats[i][k]) THEN [mats[i][k] EXCEPT !.envMap = texture]
                ELSE mats[i][k]]
        ELSE mats[i]]

\* setLightingPreset(p): the lighting effect runs only when the state changes,
\* and calls loadEnvironment(scene, renderer, p)
SelectLighting(p) ==
    /\ p # lightingPreset
    /\ Len(hdriRequests) < MountHdriLoads + MaxLightingSwitches
    /\ lightingPreset' = p
    /\ hdriRequests' = Append(hdriRequests, p)
    /\ hdriPending' = hdriPending \cup {Len(hdriRequests) + 1}
    /\ lastHandler' = "other"
    /\ UNCHANGED <<sceneEnvironment, envMap, sceneVars, loadVars, cameraVars, captureVars,
                   matVars, uiVars, renderVars>>

\* variant: a completion is dropped when the recorded preset is no longer the load's
HdriOnLoadDropsStale(r) ==
    /\ r \in hdriPending
    /\ hdriPending' = hdriPending \ {r}
    /\ sceneEnvironment' = IF hdriRequests[r] = lightingPreset THEN Texture(r) ELSE sceneEnvironment
    /\ envMap' = IF hdriRequests[r] = lightingPreset THEN Texture(r) ELSE envMap
    /\ IF hdriRequests[r] = lightingPreset
       THEN EnsureDefaultRing(PropagateEnvMap(materials, attached, Texture(r)), Texture(r))
       ELSE EnsureDefaultRing(materials, envMap)
    /\ lastHandler' = "other"
    /\ UNCHANGED <<hdriRequests, lightingPreset, modelPending, modelIssued, cameraVars, captureVars,
                   uiVars, renderVars>>

\* RGBELoader onLoad of load r
HdriOnLoad(r) ==
    /\ r \in hdriPending
    /\ hdriPending' = hdriPending \ {r}
    /\ sceneEnvironment' = Texture(r)
    /\ envMap' = Texture(r)
    /\ EnsureDefaultRing(PropagateEnvMap(materials, attached, Texture(r)), Texture(r))
    /\ lastHandler' = "other"
    /\ UNCHANGED <<hdriRequests, lightingPreset, modelPending, modelIssued, cameraVars, captureVars,
                   uiVars, renderVars>>

\* RGBELoader onError of load r
HdriOnError(r) ==
    /\ r \in hdriPending
    /\ hdriPending' = hdriPending \ {r}
    /\ EnsureDefaultRing(materials, envMap)
    /\ lastHandler' = "other"
    /\ UNCHANGED <<sceneEnvironment, envMap, hdriRequests, lightingPreset,
                   modelPending, modelIssued, cameraVars, captureVars, uiVars, renderVars>>

----------------------------------------------------------------------------
(* Camera Controller *)

\* the position the camera preset effect sets for a box centre c and largest dimension d
Framing(preset, c, d) ==
    CASE preset = "front"  -> <<c[1], c[2], c[3] + Mul(d, 15, 10)>>
      [] preset = "side"   -> <<c[1] + Mul(d, 15, 10), c[2], c[3]>>
      [] preset = "top"    -> <<c[1], c[2] + Mul(d, 15, 10), c[3]>>
      [] preset = "detail" -> <<c[1] + Mul(d, 8, 10), c[2] + Mul(d, 5, 10), c[3] + Mul(d, 8, 10)>>
      [] preset = "iso"    -> <<c[1] + d, c[2] + Mul(d, 7, 10), c[3] + d>>

\* variant: every preset other than detail brings back the initial minimum
EffectMinDistanceRestores(preset, d) ==
    IF preset = "detail" THEN Mul(d, 3, 10) ELSE InitialMinDistance

\* controls.minDistance after the effect ran for a preset
EffectMinDistance(preset, d) ==
    IF preset = "detail" THEN Mul(d, 3, 10) ELSE minDistance

\* useEffect(..., [cameraPreset]): after mount the effect body runs only when
\* the committed cameraPreset differs from the previous one
EffectRuns(old, new) == old # new

\* Body of the camera preset effect for the model object m.  controls.update()
\* keeps the camera where it was set: every framing distance lies between
\* minDistance and maxDistance = 10 for the boxes that occur (largest
\* dimension 2 or 2.5); auto-rotation and dragging are the Orbit action.
CameraEffectBody(preset, m) ==
    /\ cameraPosition' = Framing(preset, BoxCenter(m), MaxDim(m))
    /\ controlsTarget' = BoxCenter(m)
    /\ minDistance' = EffectMinDistance(preset, MaxDim(m))

\* setCameraPreset(p) followed by the effect it schedules; model is the value
\* of currentModelRef.current when the effect runs, heap the objects then
SetCameraPreset(p, model, heap) ==
    /\ cameraPreset' = p
    /\ IF EffectRuns(cameraPreset, p) /\ model # NULL
       THEN CameraEffectBody(p, heap[model])
       ELSE UNCHANGED <<cameraPosition, controlsTarget, minDistance>>

\* preset button or numeric key
SelectCameraPreset(p) ==
    /\ SetCameraPreset(p, currentModel, objects)
    /\ lastHandler' = "selectPreset"
    /\ UNCHANGED <<sceneVars, envVars, loadVars, captureVars, matVars, uiVars, renderVars>>

\* variant: zoom to fit also records the front preset
ZoomToFitRecordsFront ==
    /\ IF currentModel # NULL
       THEN /\ controlsTarget' = BoxCenter(objects[currentModel])
            /\ cameraPosition' = <<BoxCenter(objects[currentModel])[1],
                                   BoxCenter(objects[currentModel])[2],
                                   BoxCenter(objects[currentModel])[3]
                                       + Mul(MaxDim(objects[currentModel]), 15, 10)>>
            /\ cameraPreset' = "front"
       ELSE UNCHANGED <<controlsTarget, cameraPosition, cameraPreset>>
    /\ lastHandler' = "zoomToFit"
    /\ UNCHANGED <<minDistance, sceneVars, envVars, loadVars, captureVars, matVars, uiVars, renderVars>>

\* zoomToFit(): returns when there is no current model; otherwise the target
\* becomes the box centre and the camera goes maxDim * 1.5 in front of it.
\* controls.update() keeps the camera there, as in the preset effect.
ZoomToFit ==
    /\ IF currentModel # NULL
       THEN /\ controlsTarget' = BoxCenter(objects[currentModel])
            /\ cameraPosition' = <<BoxCenter(objects[currentModel])[1],
                                   BoxCenter(objects[currentModel])[2],
                                   BoxCenter(objects[currentModel])[3]
                                       + Mul(MaxDim(objects[currentModel]), 15, 10)>>
       ELSE UNCHANGED <<controlsTarget, cameraPosition>>
    /\ lastHandler' = "zoomToFit"
    /\ UNCHANGED <<cameraPreset, minDistance, sceneVars, envVars, loadVars, captureVars,
                   matVars, uiVars, renderVars>>

\* positions a drag or the auto-rotation can leave the camera at
OrbitPositions == {<<3000, 0, 0>>, <<0, 2000, 5000>>}

\* OrbitControls moving the camera around the target
Orbit(pos) ==
    /\ cameraPosition' = pos
    /\ lastHandler' = "other"
    /\ UNCHANGED <<cameraPreset, controlsTarget, minDistance,
                   sceneVars, envVars, loadVars, captureVars, matVars, uiVars, renderVars>>

----------------------------------------------------------------------------
(* Model Manager: external loads *)

\* loadModelFromURL: model.position.{x,y,z} -= center.{x,y,z}
UrlRecentre(position, center) == VSub(position, center)

\* loadUserGLB: model.position.{x,y,z} += (model.position.{x,y,z} - center.{x,y,z})
FileRecentre(position, center) == VAdd(position, VSub(position, center))

\* const scaleFactor = 2 / maxDim
ScaleFactor(maxDim) == <<TargetSize, maxDim>>

\* "Auto-center and scale" of loadModelFromURL
NormaliseFromURL(m) ==
    [m EXCEPT !.position = UrlRecentre(m.position, BoxCenter(m)),
              !.scale = ScaleFactor(MaxDim(m))]

\* "Auto-center and scale" of loadUserGLB
NormaliseFromFile(m) ==
    [m EXCEPT !.position = FileRecentre(m.position, BoxCenter(m)),
              !.scale = ScaleFactor(MaxDim(m))]

\* loadModelFromURL(url) with a direct URL, up to loader.load
LoadModelFromURL ==
    /\ modelIssued < MaxModelLoads
    /\ lastHandler' = "other"
    /\ loading' = TRUE
    /\ modelIssued' = modelIssued + 1
    /\ modelPending' = modelPending \cup {[id |-> modelIssued + 1, via |-> "url"]}
    /\ UNCHANGED <<sceneVars, envVars, cameraVars, captureVars, matVars, uiVars, renderVars>>

\* loadUserGLB(file), up to reader.readAsArrayBuffer
LoadUserGLB ==
    /\ modelIssued < MaxModelLoads
    /\ lastHandler' = "other"
    /\ loading' = TRUE
    /\ modelIssued' = modelIssued + 1
    /\ modelPending' = modelPending \cup {[id |-> modelIssued + 1, via |-> "file"]}
    /\ UNCHANGED <<sceneVars, envVars, cameraVars, captureVars, matVars, uiVars, renderVars>>

\* variant: the previous model is left in the scene
UrlRemovesNothing == {}

\* what loadModelFromURL's onLoad removes from the scene
UrlRemoves ==
    IF currentModel # NULL /\ currentModel # defaultRing THEN {currentModel} ELSE {}

\* what loadUserGLB's onLoad removes from the scene
FileRemoves ==
    IF currentModel # NULL THEN {currentModel} ELSE {}

\* The objects the program can still reach: those in the scene and those a ref
\* holds.  A removed model that no ref holds is never touched again.
Reachable(inScene, current, ring) == (inScene \cup {current, ring}) \ {NULL}

\* the materials of the objects ids; the others are dropped with their object
Retain(mats, ids) == [i \in DOMAIN mats \cap ids |-> mats[i]]

\* model.traverse of both onLoad callbacks: with envMapRef.current set, every
\* standard or physical material gets it as envMap, and envMapIntensity
\* becomes intensity (0.8 in loadModelFromURL, 1.0 in loadUserGLB)
BindEnvMap(mats, env, intensity) ==
    [k \in DOMAIN mats |->
        IF EnvCapable(mats[k]) /\ env # NULL
        THEN [mats[k] EXCEPT !.envMap = env, !.envMapIntensity = intensity]
        ELSE mats[k]]

\* common tail of both onLoad callbacks for the hierarchy m of identity id
\* with the mesh materials mats: scene.add(model), set the ref,
\* setModelInfo, setLoading(false), setCameraPreset('front')
InstallModel(id, m, mats, removed) ==
    /\ objects' = Allocate(objects, id, m)
    /\ materials' = Retain(Allocate(materials, id, mats),
                           Reachable((attached \ removed) \cup {id}, id, defaultRing))
    /\ modelInfo' = ModelStats(m)
    /\ attached' = (attached \ removed) \cup {id}
    /\ currentModel' = id
    /\ defaultRing' = defaultRing
    /\ loading' = FALSE
    /\ SetCameraPreset("front", id, Allocate(objects, id, m))
    /\ lastHandler' = "modelLoaded"

\* GLTFLoader.load onLoad of loadModelFromURL
UrlOnLoad(l, a) ==
    /\ l \in modelPending /\ l.via = "url"
    /\ modelPending' = modelPending \ {l}
    /\ InstallModel(ExternalId(l), NormaliseFromURL(GltfScene(a)),
                    BindEnvMap(GltfMaterials(a), envMap, 80), UrlRemoves)
    /\ UNCHANGED <<modelIssued, envVars, captureVars, uiVars, renderVars>>

\* loadModelFromURL(url) with a 'skfb.ly' short link: nothing is fetched, a
\* 500 ms timer is started
LoadShortLink ==
    /\ timers < MaxTimers
    /\ loading' = TRUE
    /\ timers' = timers + 1
    /\ lastHandler' = "other"
    /\ UNCHANGED <<modelPending, modelIssued, sceneVars, envVars, cameraVars, captureVars,
                   matVars, currentMaterial, customColor, renderVars>>

\* the setTimeout callback of the short-link branch
ShortLinkTimeout ==
    /\ timers > 0
    /\ timers' = timers - 1
    /\ loading' = FALSE
    /\ lastHandler' = "other"
    /\ UNCHANGED <<modelPending, modelIssued, sceneVars, envVars, cameraVars, captureVars,
                   matVars, currentMaterial, customColor, renderVars>>

\* variant: the failure handler leaves the loading flag alone
UrlOnErrorKeepsLoading(l) ==
    /\ l \in modelPending /\ l.via = "url"
    /\ lastHandler' = "urlFailed"
    /\ modelPending' = modelPending \ {l}
    /\ UNCHANGED <<loading, modelIssued, sceneVars, envVars, cameraVars, captureVars, matVars, uiVars, renderVars>>

\* GLTFLoader.load onError of loadModelFromURL
UrlOnError(l) ==
    /\ l \in modelPending /\ l.via = "url"
    /\ lastHandler' = "urlFailed"
    /\ modelPending' = modelPending \ {l}
    /\ loading' = FALSE
    /\ UNCHANGED <<modelIssued, sceneVars, envVars, cameraVars, captureVars, matVars, uiVars, renderVars>>

\* reader.onload and GLTFLoader.parse onLoad of loadUserGLB
FileOnLoad(l, a) ==
    /\ l \in modelPending /\ l.via = "file"
    /\ modelPending' = modelPending \ {l}
    /\ InstallModel(ExternalId(l), NormaliseFromFile(GltfScene(a)),
                    BindEnvMap(GltfMaterials(a), envMap, 100), FileRemoves)
    /\ UNCHANGED <<modelIssued, envVars, captureVars, uiVars, renderVars>>

\* variant: the failure handler also takes the current model out of the scene
FileOnErrorDropsModel(l) ==
    /\ l \in modelPending /\ l.via = "file"
    /\ lastHandler' = "other"
    /\ modelPending' = modelPending \ {l}
    /\ loading' = FALSE
    /\ attached' = attached \ {currentModel}
    /\ UNCHANGED <<modelIssued, objects, currentModel, defaultRing, envVars, cameraVars, captureVars,
                   matVars, uiVars, renderVars>>

\* GLTFLoader.parse onError of loadUserGLB
FileOnError(l) ==
    /\ l \in modelPending /\ l.via = "file"
    /\ lastHandler' = "other"
    /\ modelPending' = modelPending \ {l}
    /\ loading' = FALSE
    /\ UNCHANGED <<modelIssued, sceneVars, envVars, cameraVars, captureVars, matVars, uiVars, renderVars>>

\* variant: the external model is not taken out of the scene
ResetSceneKeepsExternal ==
    /\ IF currentModel # NULL /\ currentModel # defaultRing
       THEN /\ attached' = attached \cup (IF defaultRing # NULL THEN {defaultRing} ELSE {})
            /\ currentModel' = IF defaultRing # NULL THEN defaultRing ELSE currentModel
       ELSE UNCHANGED <<attached, currentModel>>
    /\ materials' = Retain(materials, Reachable(attached', currentModel', defaultRing))
    /\ lastHandler' = "other"
    /\ UNCHANGED <<objects, defaultRing, envVars, loadVars, cameraVars, captureVars, modelInfo, uiVars, renderVars>>

\* resetScene()
ResetScene ==
    /\ IF currentModel # NULL /\ currentModel # defaultRing
       THEN /\ attached' = (attached \ {currentModel}) \cup
                           (IF defaultRing # NULL THEN {defaultRing} ELSE {})
            /\ currentModel' = IF defaultRing # NULL THEN defaultRing ELSE currentModel
       ELSE UNCHANGED <<attached, currentModel>>
    /\ materials' = Retain(materials, Reachable(attached', currentModel', defaultRing))
    /\ lastHandler' = "other"
    /\ UNCHANGED <<objects, defaultRing, envVars, loadVars, cameraVars, captureVars, modelInfo, uiVars, renderVars>>

----------------------------------------------------------------------------
(* Material selection *)

UpperLetters == <<"A","B","C","D","E","F","G","H","I","J","K","L","M",
                  "N","O","P","Q","R","S","T","U","V","W","X","Y","Z">>
LowerLetters == <<"a","b","c","d","e","f","g","h","i","j","k","l","m",
                  "n","o","p","q","r","s","t","u","v","w","x","y","z">>
HexDigits == <<"0","1","2","3","4","5","6","7","8","9","a","b","c","d","e","f">>

\* the characters that occur in names and colour texts
Chars ==
    {UpperLetters[k] : k \in DOMAIN UpperLetters} \cup {LowerLetters[k] : k \in DOMAIN LowerLetters}
        \cup {HexDigits[k] : k \in DOMAIN HexDigits} \cup {"#"}

\* String.prototype.toLowerCase, character by character
LowerCaseOf ==
    [c \in Chars |->
        IF \E k \in DOMAIN UpperLetters : UpperLetters[k] = c
        THEN LowerLetters[CHOOSE k \in DOMAIN UpperLetters : UpperLetters[k] = c]
        ELSE c]

LowerChar(c) == LowerCaseOf[c]

ToLowerCase(str) == [i \in DOMAIN str |-> LowerChar(str[i])]

\* String.prototype.includes
Includes(str, sub) ==
    \E i \in 0..(Len(str) - Len(sub)) : SubSeq(str, i + 1, i + Len(sub)) = sub

\* the character class [0-9A-F] under the i flag
IsHexDigit(c) == \E k \in DOMAIN HexDigits : HexDigits[k] = LowerChar(c)

HexDigitValue(c) == (CHOOSE k \in DOMAIN HexDigits : HexDigits[k] = LowerChar(c)) - 1

\* variant: the pattern is not anchored at the start and needs no '#'
MatchesHexColourUnanchored(str) ==
    /\ Len(str) >= 6
    /\ \A i \in (Len(str) - 5)..Len(str) : IsHexDigit(str[i])

\* /^#[0-9A-F]{6}$/i.test(str)
MatchesHexColour(str) ==
    /\ Len(str) = 7
    /\ str[1] = "#"
    /\ \A i \in 2..7 : IsHexDigit(str[i])

\* color.replace('#', ''): the first '#' is taken out
RemoveHash(str) ==
    IF \E i \in DOMAIN str : str[i] = "#"
    THEN LET i == CHOOSE j \in DOMAIN str : str[j] = "#" /\ \A k \in 1..(j - 1) : str[k] # "#"
         IN SubSeq(str, 1, i - 1) \o SubSeq(str, i + 1, Len(str))
    ELSE str

\* the value parseInt yields when no digit can be read
NaN == 0 - 1

\* parseInt(str, 16) for text without white space, sign or 0x prefix: the
\* longest prefix of hexadecimal digits is read, the rest is ignored
RECURSIVE ParseHexPrefix(_, _)
ParseHexPrefix(str, acc) ==
    IF str = <<>> \/ ~IsHexDigit(Head(str)) THEN acc
    ELSE ParseHexPrefix(Tail(str), acc * 16 + HexDigitValue(Head(str)))

ParseIntHex(str) ==
    IF str = <<>> \/ ~IsHexDigit(Head(str)) THEN NaN ELSE ParseHexPrefix(str, 0)

\* setMaterial called without a colour argument
NoColor == <<>>

\* colorHex of setMaterial
ColorHex(type, color) ==
    IF type = "custom" /\ color # NoColor
    THEN ParseIntHex(RemoveHash(color))
    ELSE IF type \in Metals /\ ConfigMaterials[type].color # 0
         THEN ConfigMaterials[type].color
         ELSE 16766720

\* settings of setMaterial
Settings(type, color) ==
    IF type = "custom"
    THEN [color |-> ColorHex(type, color), metalness |-> 90, roughness |-> 30,
          envMapIntensity |-> 80]
    ELSE ConfigMaterials[type]

\* variant: the band keeps its environment intensity
PaintRingKeepsIntensity(mat, st) ==
    [mat EXCEPT !.color = st.color, !.metalness = st.metalness, !.roughness = st.roughness]

\* the procedural-ring branch of setMaterial, on the band's material
PaintRing(mat, st) ==
    [mat EXCEPT !.color = st.color, !.metalness = st.metalness, !.roughness = st.roughness,
                !.envMapIntensity = st.envMapIntensity]

\* the classification of the GLB branch
MetalLike(mat) ==
    \/ Includes(ToLowerCase(mat.name), <<"m","e","t","a","l">>)
    \/ Includes(ToLowerCase(mat.name), <<"g","o","l","d">>)
    \/ mat.metalness > 50

\* variant: a material that is not metal-like is left as it is
PaintMeshMetalOnly(mat, st, env) ==
    IF EnvCapable(mat) /\ MetalLike(mat)
    THEN [mat EXCEPT !.color = st.color, !.metalness = st.metalness,
                     !.roughness = st.roughness, !.envMapIntensity = st.envMapIntensity,
                     !.envMap = IF env # NULL THEN env ELSE @]
    ELSE mat

\* the GLB branch of setMaterial, on the material of one mesh
PaintMesh(mat, st, env) ==
    IF EnvCapable(mat)
    THEN LET painted ==
                 IF MetalLike(mat)
                 THEN [mat EXCEPT !.color = st.color, !.metalness = st.metalness,
                                  !.roughness = st.roughness,
                                  !.envMapIntensity = st.envMapIntensity]
                 ELSE [mat EXCEPT !.color = st.color, !.metalness = st.metalness,
                                  !.roughness = st.roughness]
         IN IF env # NULL THEN [painted EXCEPT !.envMap = env] ELSE painted
    ELSE mat

\* setMaterial(type, color)
SetMaterial(type, color) ==
    /\ currentMaterial' = type
    /\ customColor' = IF type = "custom" /\ color # NoColor THEN color ELSE customColor
    /\ materials' =
           IF currentModel = NULL THEN materials
           ELSE IF currentModel = defaultRing
           THEN [materials EXCEPT ![currentModel][1] = PaintRing(@, Settings(type, color))]
           ELSE [materials EXCEPT ![currentModel] =
                    [k \in DOMAIN @ |-> PaintMesh(@[k], Settings(type, color), envMap)]]
    /\ UNCHANGED modelInfo

\* the Gold, Rose Gold and Platinum buttons
MaterialButton(type) ==
    /\ type \in Metals
    /\ SetMaterial(type, NoColor)
    /\ lastHandler' = "setMaterial"
    /\ UNCHANGED <<timers, renderVars, sceneVars, envVars, loadVars, cameraVars, captureVars>>

\* values the colour picker can deliver: '#' and six lower-case digits
PickerColours == { <<"#","1","a","2","b","3","c">> }

\* onChange of the colour picker
ColourPicker(c) ==
    /\ SetMaterial("custom", c)
    /\ lastHandler' = "setMaterial"
    /\ UNCHANGED <<timers, renderVars, sceneVars, envVars, loadVars, cameraVars, captureVars>>

\* texts the custom colour field can receive
TextInputs ==
    { <<"#","1","A","2","B","3","C">>,
      <<"1","A","2","B","3","C">>,
      <<"#","1","A","2","B","3">>,
      <<"#","1","A","2","B","3","G">>,
      <<"#","1","A","2","B","3","C","4">>,
      <<"x","#","1","A","2","B","3","C">>,
      <<>> }

\* onChange of the custom colour text field
ColourText(t) ==
    /\ IF MatchesHexColour(t)
       THEN SetMaterial("custom", t) /\ lastHandler' = "setMaterial"
       ELSE /\ lastHandler' = "textRejected"
            /\ UNCHANGED <<matVars, currentMaterial, customColor>>
    /\ UNCHANGED <<timers, renderVars, sceneVars, envVars, loadVars, cameraVars, captureVars>>

----------------------------------------------------------------------------
(* Render loop *)

\* one pass of animate(currentTime), the FPS part: the counter is
\* incremented, and when currentTime is PublishInterval or more past
\* lastFrameTimeRef.current the counter is published and reset
Animate(currentTime) ==
    /\ clock' = currentTime
    /\ IF currentTime - lastFrameTime >= PublishInterval
       THEN /\ fps' = frameCount + 1
            /\ frameCount' = 0
            /\ lastFrameTime' = currentTime
            /\ publishedAt' = currentTime
            /\ lastHandler' = "fpsPublished"
       ELSE /\ frameCount' = frameCount + 1
            /\ lastHandler' = "frame"
            /\ UNCHANGED <<fps, lastFrameTime, publishedAt>>

\* values of performance.now() when the mount effect starts the loop
StartTimes == {300, 1500}

\* time between two animation frames, in ms
FrameDeltas == {250, 400, 1100}

\* animate(performance.now()) at the end of the mount effect
StartLoop(t) ==
    /\ loopStart = NotStarted
    /\ loopStart' = t
    /\ Animate(t)
    /\ UNCHANGED <<sceneVars, envVars, loadVars, cameraVars, captureVars, matVars, uiVars>>

\* the requestAnimationFrame callback, d ms after the previous iteration
Frame(d) ==
    /\ loopStart # NotStarted
    /\ clock + d <= MaxTime
    /\ loopStart' = loopStart
    /\ Animate(clock + d)
    /\ UNCHANGED <<sceneVars, envVars, loadVars, cameraVars, captureVars, matVars, uiVars>>

----------------------------------------------------------------------------
(* Screenshot capture *)

\* captureScreenshot(), up to renderer.domElement.toBlob
CaptureScreenshot ==
    /\ captureIssued < MaxCaptures
    /\ isCapturing' = TRUE
    /\ rendererSize' = <<rendererSize[1] * CaptureScale, rendererSize[2] * CaptureScale>>
    /\ captureIssued' = captureIssued + 1
    /\ capturePending' = capturePending \cup
                         {[id |-> captureIssued + 1, originalSize |-> rendererSize]}
    /\ downloads' = downloads
    /\ lastHandler' = "other"
    /\ UNCHANGED <<sceneVars, envVars, loadVars, cameraVars, matVars, uiVars, renderVars>>

\* the size the toBlob callback of capture c gives back to the renderer
RestoredSize(c) == c.originalSize

\* the toBlob callback of capture c; hasBlob is whether blob is non-null
BlobCallback(c, hasBlob) ==
    /\ c \in capturePending
    /\ capturePending' = capturePending \ {c}
    /\ downloads' = IF hasBlob THEN downloads + 1 ELSE downloads
    /\ rendererSize' = RestoredSize(c)
    /\ isCapturing' = FALSE
    /\ captureIssued' = captureIssued
    /\ lastHandler' = "other"
    /\ UNCHANGED <<sceneVars, envVars, loadVars, cameraVars, matVars, uiVars, renderVars>>

----------------------------------------------------------------------------
(* Specifications *)

\* the environment loader and the model slot
Next ==
    \/ \E r \in hdriPending : HdriOnLoad(r)
    \/ \E r \in hdriPending : HdriOnError(r)
    \/ LoadModelFromURL
    \/ LoadUserGLB
    \/ \E l \in modelPending, a \in Assets : UrlOnLoad(l, a)
    \/ \E l \in modelPending : UrlOnError(l)
    \/ \E l \in modelPending, a \in Assets : FileOnLoad(l, a)
    \/ \E l \in modelPending : FileOnError(l)
    \/ ResetScene

Spec == Init /\ [][Next]_vars

\* the lighting presets over the model slot, with models loaded from files
NextLighting ==
    \/ \E p \in LightingPresets : SelectLighting(p)
    \/ \E r \in hdriPending : HdriOnLoad(r)
    \/ \E r \in hdriPending : HdriOnError(r)
    \/ LoadUserGLB
    \/ \E l \in modelPending, a \in Assets : FileOnLoad(l, a)
    \/ ResetScene

SpecLighting == Init /\ [][NextLighting]_vars

\* the camera controller over the model slot, with the lighting preset left
\* alone and models loaded from files
NextCamera ==
    \/ \E r \in hdriPending : HdriOnLoad(r)
    \/ LoadUserGLB
    \/ \E l \in modelPending, a \in Assets : FileOnLoad(l, a)
    \/ ResetScene
    \/ \E p \in CameraPresets : SelectCameraPreset(p)
    \/ \E pos \in OrbitPositions : Orbit(pos)
    \/ ZoomToFit

SpecCamera == Init /\ [][NextCamera]_vars

\* the screenshot capture alone
NextCapture ==
    \/ CaptureScreenshot
    \/ \E c \in capturePending, hasBlob \in BOOLEAN : BlobCallback(c, hasBlob)

SpecCapture == Init /\ [][NextCapture]_vars

\* the loading flag: everything that sets or clears it
NextLoading ==
    \/ \E r \in hdriPending : HdriOnLoad(r)
    \/ \E r \in hdriPending : HdriOnError(r)
    \/ LoadModelFromURL
    \/ LoadUserGLB
    \/ LoadShortLink
    \/ ShortLinkTimeout
    \/ \E l \in modelPending, a \in Assets : UrlOnLoad(l, a)
    \/ \E l \in modelPending : UrlOnError(l)
    \/ \E l \in modelPending, a \in Assets : FileOnLoad(l, a)
    \/ \E l \in modelPending : FileOnError(l)

SpecLoading == Init /\ [][NextLoading]_vars

\* the material controls over the model slot, with models loaded from a URL
NextMaterial ==
    \/ \E r \in hdriPending : HdriOnLoad(r)
    \/ LoadModelFromURL
    \/ \E l \in modelPending, a \in Assets : UrlOnLoad(l, a)
    \/ ResetScene
    \/ \E type \in Metals : MaterialButton(type)
    \/ \E c \in PickerColours : ColourPicker(c)
    \/ \E t \in TextInputs : ColourText(t)

SpecMaterial == Init /\ [][NextMaterial]_vars

\* the custom colour controls over the procedural ring
NextColour ==
    \/ \E r \in hdriPending : HdriOnLoad(r)
    \/ \E r \in hdriPending : HdriOnError(r)
    \/ \E type \in Metals : MaterialButton(type)
    \/ \E c \in PickerColours : ColourPicker(c)
    \/ \E t \in TextInputs : ColourText(t)

SpecColour == Init /\ [][NextColour]_vars

\* the render loop's FPS counter
NextRender ==
    \/ \E t \in StartTimes : StartLoop(t)
    \/ \E d \in FrameDeltas : Frame(d)

SpecRender == Init /\ [][NextRender]_vars

----------------------------------------------------------------------------
(* Properties *)

RingsOf(heap) == {i \in DOMAIN heap : heap[i].kind = "ring"}

\* C1: in every reachable state at most one model subtree (the procedural
\* ring or one external hierarchy) is attached to the scene.
AtMostOneModelAttached == Cardinality(attached) <= 1

\* C2: when the ring exists and an external model is current, reset() makes
\* the current model the ring that was built first, without building
\* anything, with the ring attached and no external model attached.
ResetRestoresOriginalRing ==
    [][(ResetScene /\ defaultRing # NULL /\ currentModel # NULL /\ currentModel # defaultRing)
        => /\ currentModel' = defaultRing
           /\ defaultRing' = defaultRing
           /\ objects' = objects
           /\ RingsOf(objects) = {defaultRing}
           /\ defaultRing \in attached'
           /\ \A i \in attached' : objects[i].kind # "glb"]_vars

\* C2 witness: reset() has run after two successful external loads
ResetAfterExternalLoads ==
    /\ Cardinality(Externals) >= 2
    /\ defaultRing # NULL
    /\ currentModel = defaultRing
    /\ attached = {defaultRing}

\* C3: no step removes more than one load from those in flight, a
\* lighting switch removes none, and a successful completion installs its
\* own texture whatever the recorded preset and whatever is installed.
HdriCompletionsAppliedAsTheyResolve ==
    [][/\ Cardinality(hdriPending \ hdriPending') <= 1
       /\ lightingPreset' # lightingPreset => hdriPending \subseteq hdriPending'
       /\ \A r \in hdriPending :
            HdriOnLoad(r) => /\ sceneEnvironment' = Texture(r)
                             /\ envMap' = Texture(r)
                             /\ lightingPreset' = lightingPreset]_vars

\* C3 witness: every load has resolved, and the installed texture is that
\* of an older load whose preset is not the recorded one
OlderTextureInstalled ==
    /\ hdriPending = {}
    /\ sceneEnvironment # NULL
    /\ sceneEnvironment < Len(hdriRequests)
    /\ hdriRequests[sceneEnvironment] # lightingPreset

\* C4: a successful completion of an external load makes its hierarchy the
\* current model and leaves no other external hierarchy attached.
LastCompletionWins ==
    [][\A l \in modelPending :
         (l \notin modelPending' /\ ExternalId(l) \in DOMAIN objects')
         => /\ currentModel' = ExternalId(l)
            /\ ExternalId(l) \in attached'
            /\ \A i \in attached' : objects'[i].kind = "glb" => i = ExternalId(l)]_vars

\* C4 witness: the load started first completed last (so the two overlapped);
\* its hierarchy is current and the other one is detached
OverlappingLoadsResolved ==
    /\ modelPending = {}
    /\ {1, 2} \subseteq DOMAIN objects
    /\ currentModel = 1
    /\ 1 \in attached
    /\ 2 \notin attached

\* C5: once no capture is outstanding the renderer's size is the size it
\* had before the first capture.
CaptureRestoresSize == capturePending = {} => rendererSize = WindowSize

\* C6: an HDRI completion builds the ring and makes it current when there is
\* no current model, builds nothing otherwise, and at most one ring is ever built.
HdriCompletionBuildsRingOnce ==
    [][/\ \A r \in hdriPending :
            r \notin hdriPending'
            => IF currentModel = NULL
               THEN /\ DOMAIN objects' = DOMAIN objects \cup {currentModel'}
                    /\ currentModel' \notin DOMAIN objects
                    /\ objects'[currentModel'].kind = "ring"
                    /\ defaultRing' = currentModel'
                    /\ currentModel' \in attached'
               ELSE /\ objects' = objects
                    /\ currentModel' = currentModel
                    /\ defaultRing' = defaultRing
       /\ Cardinality(RingsOf(objects')) <= 1]_vars

\* C6 witness: all loads, those of the mount and a later one, have resolved
\* and there is one ring
AllHdriResolvedOneRing ==
    /\ hdriPending = {}
    /\ Len(hdriRequests) > MountHdriLoads
    /\ Cardinality(Rings) = 1
    /\ currentModel = defaultRing

\* C7: every externally loaded model has its bounding box centred at the
\* origin and its largest dimension equal to the target size 2.
ExternalModelsNormalised ==
    \A i \in Externals :
        /\ BoxCenter(objects[i]) = Origin
        /\ MaxDim(objects[i]) = TargetSize

\* C8: right after a successful external load the recorded preset is front
\* and the camera position and orbit target are the front framing of the
\* loaded model's bounding box.
LoadEntersFront ==
    lastHandler = "modelLoaded"
    => /\ cameraPreset = "front"
       /\ cameraPosition = Framing("front", BoxCenter(objects[currentModel]),
                                   MaxDim(objects[currentModel]))
       /\ controlsTarget = BoxCenter(objects[currentModel])

\* C9: right after a preset selection with a model present the camera
\* position and orbit target are the selected preset's framing of the
\* current model's bounding box.
SelectFramesCurrentModel ==
    (lastHandler = "selectPreset" /\ currentModel # NULL)
    => /\ cameraPosition = Framing(cameraPreset, BoxCenter(objects[currentModel]),
                                   MaxDim(objects[currentModel]))
       /\ controlsTarget = BoxCenter(objects[currentModel])

\* C10: a failed external load changes neither the current model nor what
\* is attached to the scene, and the failure of a file load clears the
\* loading indicator.
FailedLoadKeepsModel ==
    [][\A l \in modelPending :
         (l \notin modelPending' /\ ExternalId(l) \notin DOMAIN objects')
         => /\ currentModel' = currentModel
            /\ attached' = attached
            /\ objects' = objects
            /\ (l.via = "file" => loading' = FALSE)]_vars

\* C10 witness: a load was started while the ring was shown, it is no longer
\* in flight and delivered nothing; the ring is still current and attached
FailedLoadOverRing ==
    /\ modelIssued >= 1
    /\ modelPending = {}
    /\ Externals = {}
    /\ defaultRing # NULL
    /\ currentModel = defaultRing
    /\ attached = {defaultRing}
    /\ ~loading

\* C11 as stated: right after the failure of a load from a URL has been
\* handled the loading flag is true.
UrlFailureLeavesLoading == lastHandler = "urlFailed" => loading

\* C11: right after the failure of a load from a URL has been handled the
\* loading flag is false.
UrlFailureClearsLoading == lastHandler = "urlFailed" => ~loading

\* C11 witness: a load from a URL has just failed while another fetch is
\* still outstanding, and the flag is clear
UrlFailureHandled ==
    /\ lastHandler = "urlFailed"
    /\ modelPending # {}
    /\ ~loading

\* '#' followed by exactly six hexadecimal digits
HashAndSixHexDigits(t) ==
    /\ Len(t) = 7
    /\ t[1] = "#"
    /\ \A i \in 2..7 : t[i] \in {"0","1","2","3","4","5","6","7","8","9",
                                 "a","b","c","d","e","f","A","B","C","D","E","F"}

\* C12: text entered in the custom colour field that is '#' followed by six
\* hexadecimal digits becomes the custom colour, selects the custom material
\* and colours the ring's band when the ring is current; any other text
\* changes neither the custom colour, nor the selection, nor any material.
ColourTextValidated ==
    [][\A t \in TextInputs :
         ColourText(t)
         => IF HashAndSixHexDigits(t)
            THEN /\ customColor' = t
                 /\ currentMaterial' = "custom"
                 /\ (currentModel # NULL /\ currentModel = defaultRing)
                    => materials'[currentModel][1].color = ColorHex("custom", t)
            ELSE UNCHANGED <<customColor, currentMaterial, materials>>]_vars

\* C12 witness: "#1A2B3C" was entered and applied to the ring, and a later
\* text was rejected: the colour, the selection and the band are retained
RejectedTextKeepsColour ==
    /\ lastHandler = "textRejected"
    /\ customColor = <<"#","1","A","2","B","3","C">>
    /\ currentMaterial = "custom"
    /\ currentModel # NULL /\ currentModel = defaultRing
    /\ materials[currentModel][1].color = 1715004

\* C13: right after gold, rose gold or platinum has been applied while the
\* ring is current, the band's colour, metalness, roughness and environment
\* intensity are those configured for that metal.
RingBandTakesConfiguredMetal ==
    (/\ lastHandler = "setMaterial"
     /\ currentMaterial \in Metals
     /\ currentModel # NULL
     /\ currentModel = defaultRing)
    => /\ materials[currentModel][1].color = ConfigMaterials[currentMaterial].color
       /\ materials[currentModel][1].metalness = ConfigMaterials[currentMaterial].metalness
       /\ materials[currentModel][1].roughness = ConfigMaterials[currentMaterial].roughness
       /\ materials[currentModel][1].envMapIntensity
              = ConfigMaterials[currentMaterial].envMapIntensity

\* C13 witness: platinum has just been applied to the ring, whose band was
\* built as gold: all four values are platinum's
PlatinumAppliedToRing ==
    /\ lastHandler = "setMaterial"
    /\ currentMaterial = "platinum"
    /\ currentModel # NULL /\ currentModel = defaultRing
    /\ materials[currentModel][1].color = 16777215
    /\ materials[currentModel][1].envMapIntensity = 70

\* C14: zoom to fit with a model present puts the camera and the orbit
\* target where the front preset puts them for the current model's bounding
\* box, and leaves the recorded preset as it is.
ZoomToFitFramesFront ==
    [][(ZoomToFit /\ currentModel # NULL)
        => /\ cameraPosition' = Framing("front", BoxCenter(objects[currentModel]),
                                        MaxDim(objects[currentModel]))
           /\ controlsTarget' = BoxCenter(objects[currentModel])
           /\ cameraPreset' = cameraPreset]_vars

\* C14 witness: zoom to fit has just run on an external model while the
\* recorded preset is top; the camera is at the front framing
ZoomedUnderTopPreset ==
    /\ lastHandler = "zoomToFit"
    /\ cameraPreset = "top"
    /\ currentModel # NULL /\ currentModel # defaultRing
    /\ cameraPosition = Framing("front", BoxCenter(objects[currentModel]),
                                MaxDim(objects[currentModel]))
    /\ controlsTarget = BoxCenter(objects[currentModel])

\* C15: while a model fetch is outstanding the loading flag is true.
LoadingWhileFetchOutstanding == modelPending # {} => loading

\* C16: the current-model reference, when set, refers to an object that is
\* attached to the scene.
CurrentModelAttached == currentModel # NULL => currentModel \in attached

\* the descriptor of the recorded material selection
RecordedSettings ==
    IF currentMaterial = "custom"
    THEN [color |-> ColorHex("custom", customColor), metalness |-> 90, roughness |-> 30,
          envMapIntensity |-> 80]
    ELSE ConfigMaterials[currentMaterial]

\* C17: whenever the ring is the current model its band carries the colour,
\* metalness, roughness and environment intensity of the recorded selection.
RingCarriesRecordedSelection ==
    (currentModel # NULL /\ currentModel = defaultRing)
    => /\ materials[currentModel][1].color = RecordedSettings.color
       /\ materials[currentModel][1].metalness = RecordedSettings.metalness
       /\ materials[currentModel][1].roughness = RecordedSettings.roughness
       /\ materials[currentModel][1].envMapIntensity = RecordedSettings.envMapIntensity

\* C18: once a texture is installed, every standard or physical material of
\* the current model has the installed texture as its environment map.
CurrentModelReflectsInstalledTexture ==
    (sceneEnvironment # NULL /\ currentModel # NULL)
    => \A k \in DOMAIN materials[currentModel] :
          EnvCapable(materials[currentModel][k])
          => materials[currentModel][k].envMap = sceneEnvironment

\* C19: the published statistics are the vertex, face and material counts
\* of the current model.
ModelInfoDescribesCurrentModel ==
    currentModel # NULL => modelInfo = ModelStats(objects[currentModel])

\* C20: right after a selection has been applied while an external model is
\* current, every standard or physical material of that model has the
\* selected colour, metalness 0.9 and roughness 0.3.
ExternalMeshesTakeSelection ==
    (/\ lastHandler = "setMaterial"
     /\ currentModel # NULL
     /\ currentModel # defaultRing)
    => \A k \in DOMAIN materials[currentModel] :
          EnvCapable(materials[currentModel][k])
          => /\ materials[currentModel][k].color = RecordedSettings.color
             /\ materials[currentModel][k].metalness = 90
             /\ materials[currentModel][k].roughness = 30

\* C20 witness: rose gold has just been applied to an external model one of
\* whose standard materials ("Body", metalness 0.2) was not metal-like
RoseGoldOnPlainMesh ==
    /\ lastHandler = "setMaterial"
    /\ currentMaterial = "rosegold"
    /\ currentModel # NULL /\ currentModel # defaultRing
    /\ \E k \in DOMAIN materials[currentModel] :
          /\ materials[currentModel][k].name = <<"B","o","d","y">>
          /\ materials[currentModel][k].color = 12021369
          /\ materials[currentModel][k].metalness = 90
          /\ materials[currentModel][k].roughness = 30

\* C21: pressing a metal button right after the same button has been
\* applied to the current external model leaves the colour, metalness,
\* roughness and environment intensity of every mesh material as they are.
SameSelectionTwiceChangesNothing ==
    [][\A type \in Metals :
         (/\ MaterialButton(type)
          /\ lastHandler = "setMaterial"
          /\ currentMaterial = type
          /\ currentModel # NULL
          /\ currentModel # defaultRing)
         => \A k \in DOMAIN materials[currentModel] :
               /\ materials'[currentModel][k].color = materials[currentModel][k].color
               /\ materials'[currentModel][k].metalness = materials[currentModel][k].metalness
               /\ materials'[currentModel][k].roughness = materials[currentModel][k].roughness
               /\ materials'[currentModel][k].envMapIntensity
                      = materials[currentModel][k].envMapIntensity]_vars

\* C22: a step that enters the detail preset with a model present sets the
\* minimum distance to 0.3 times the model's largest dimension, and every
\* step that does not enter detail (another preset, zoom to fit, reset, a
\* model load, a drag) leaves the minimum distance as it is.
OnlyDetailSetsMinDistance ==
    [][/\ (cameraPreset # "detail" /\ cameraPreset' = "detail" /\ currentModel # NULL)
          => minDistance' = Mul(MaxDim(objects[currentModel]), 3, 10)
       /\ ~(cameraPreset # "detail" /\ cameraPreset' = "detail")
          => minDistance' = minDistance]_vars

\* C22 witness: detail was entered on the ring (largest dimension 2.5) and
\* then left for front; the minimum distance is still 0.75, not 2
MinDistanceKeptAfterDetail ==
    /\ lastHandler = "selectPreset"
    /\ cameraPreset = "front"
    /\ currentModel # NULL /\ currentModel = defaultRing
    /\ minDistance = 750
    /\ minDistance # InitialMinDistance

\* C23: an iteration publishes exactly when at least 1000 ms have elapsed
\* since the previous publish (since the first iteration when nothing was
\* published yet); it then publishes the number of iterations run since
\* and resets the counter; any other iteration leaves the published rate
\* as it is.
FpsPublishedOncePerSecond ==
    [][(clock' # clock \/ loopStart' # loopStart)
        => IF clock' - (IF publishedAt = NotStarted THEN loopStart' ELSE publishedAt) >= 1000
           THEN /\ lastHandler' = "fpsPublished"
                /\ fps' = frameCount + 1
                /\ frameCount' = 0
           ELSE /\ lastHandler' # "fpsPublished"
                /\ fps' = fps]_vars

====
